---- MODULE Spec2Model ----
(***************************************************************************)
(* RecordNote: the recording -> transcription -> formatting pipeline.      *)
(*                                                                         *)
(*   recorder.py   AudioRecorder: the caller's thread, the capture thread  *)
(*                 (_record_audio) and the stream callback (audio_callback)*)
(*   transcriber.py SpeechTranscriber: the lazily loaded model and the     *)
(*                 temporary file of transcribe_bytes                      *)
(*   kivy_app.py   RecordNoteKivyApp: the UI thread (button handlers and   *)
(*                 Clock callbacks) and the _process_recording workers     *)
(*   app.py        RecordNoteApp under Streamlit: one script run per step, *)
(*                 each run constructing a new RecordNoteApp               *)
(*   formatter.py  MinutesFormatter: the pure functions, called directly   *)
(*                 on strings that are sequences of characters             *)
(*                                                                         *)
(* In the sessions texts are numbers: 0 is the empty string, n > 0 is the  *)
(* text (or document) produced by pipeline run n.  A chunk of audio is a   *)
(* sequence of frames; the streams of the model deliver one-frame chunks   *)
(* labelled with the number of the capture thread.  Labels that only show  *)
(* text (status, duration, title input) are not modelled.                  *)
(***************************************************************************)
EXTENDS Integers, Sequences, FiniteSets, TLC

\* Successful start_recording() calls (capture threads, pipeline runs) explored.
MaxStarts == 3
\* Chunks a stream delivers while the buffer is shorter than this.
MaxChunks == 1
\* Streamlit script runs explored.
MaxRuns == 6
\* SpeechTranscriber objects constructed by one application.
MaxTranscribers == 2

VARIABLES
  frontend,          \* who drives the components: "kivy", "api", "wav", "transcriber" or "streamlit"
  pc,                \* position of the caller's (UI) thread
  \* ---- AudioRecorder (recorder.py:24-28)
  recording,         \* self.recording
  audio_data,        \* self.audio_data
  recording_thread,  \* self._recording_thread (0 is None)
  thread,            \* position of each capture thread in _record_audio
  callback,          \* position of each stream's audio_callback
  stop_returned,     \* stop_recording() returned normally, no start since
  raised,            \* outcome of the last recorder call made through the API
  \* ---- RecordNoteKivyApp (kivy_app.py:44-46 and the widgets)
  recording_state,
  transcribed_text,
  formatted_minutes,
  btn,               \* the .disabled flag of the four buttons
  results_text,      \* results_text.text
  popup,             \* the message of the last error popup
  clock,             \* callbacks scheduled with Clock.schedule_once
  worker,            \* position of each _process_recording thread
  audio_bytes,       \* each worker's local audio_bytes, while it is in use
  last_cmd,          \* the last button handler invoked, with the state it saw
  \* ---- RecordNoteApp under Streamlit (app.py)
  st_session,        \* st.session_state: recording_state, transcribed_text, formatted_minutes
  st_apps,           \* RecordNoteApp objects constructed so far, one per script run
  st_recorders,      \* the recorders of earlier runs whose capture thread was started
  st_rerun,          \* st.rerun() was called: the script runs again at once
  st_model_size,     \* the value of the "Whisperモデル" selectbox
  st_error,          \* the message st.error showed in the last run
  \* ---- return values of the recorder calls made through the API
  returned,          \* of the last is_recording(): "True" or "False"
  wav_bytes,         \* of the last get_audio_bytes()
  \* ---- a direct call of a function of transcriber.py or formatter.py
  args,              \* the arguments of the call
  result,            \* its return value, once pc is "returned"
  \* ---- SpeechTranscriber (transcriber.py) and the calls of transcribe_bytes
  transcribers,      \* the SpeechTranscriber objects constructed so far
  model_spinner,     \* model_spinner.text
  tb_self,           \* the object (self) the transcribe_bytes call of each worker runs on
  temp_file          \* the temporary file of each call: "none" or "exists"

recVars  == <<recording, audio_data, recording_thread, thread, callback, stop_returned>>
kivyVars == <<recording_state, transcribed_text, formatted_minutes, btn,
              results_text, popup, clock, worker, audio_bytes, last_cmd>>
stVars   == <<st_session, st_apps, st_recorders, st_rerun, st_model_size, st_error>>
apiVars  == <<returned, wav_bytes, args, result>>
trVars   == <<transcribers, model_spinner, tb_self, temp_file>>
vars == <<frontend, pc, recVars, raised, kivyVars, stVars, apiVars, trVars>>

\* no function of transcriber.py or formatter.py is called directly
NoCall == args = <<>> /\ result = <<>>

Threads == 1..MaxStarts
Runs    == 1..MaxStarts

\* the text of results_text before any document is shown
Placeholder == -1

\* a capture thread that has been started and has not yet returned
Alive(t) == thread[t] \in {"open", "loop", "exit", "except", "ret"}
\* the stream of capture thread t is open and delivers callbacks
StreamOpen(t) == thread[t] \in {"loop", "exit"}
\* thread ids already used
Started == {t \in Threads : thread[t] # "none"}
Spawned == {w \in Runs : worker[w] # "none"}

(***************************************************************************)
(* AudioRecorder                                                           *)
(***************************************************************************)

\* __init__
AudioRecorderInit ==
  /\ recording = FALSE
  /\ audio_data = <<>>
  /\ recording_thread = 0
  /\ thread = [t \in Threads |-> "none"]
  /\ callback = [t \in Threads |-> "idle"]
  /\ stop_returned = FALSE

\* self.sample_rate (the default of __init__)
sample_rate == 44100

\* (mutant) the chunks concatenated last to first
RECURSIVE concatenate_Reversed(_)
concatenate_Reversed(chunks) ==
  IF chunks = <<>> THEN <<>> ELSE concatenate_Reversed(Tail(chunks)) \o Head(chunks)

\* np.concatenate(chunks, axis=0): the frames of the chunks, chunk by chunk
RECURSIVE concatenate(_)
concatenate(chunks) ==
  IF chunks = <<>> THEN <<>> ELSE Head(chunks) \o concatenate(Tail(chunks))

\* wavfile.write(buffer, rate, array), then buffer.read(): the WAV header
\* (rate, number of frames) and the frames
wavfile_write(rate, array) == [rate |-> rate, nframes |-> Len(array), frames |-> array]

\* no bytes (a local that is not in use)
NoBytes == [rate |-> 0, nframes |-> 0, frames |-> <<>>]

\* get_audio_bytes, lines 73-83: RuntimeError when the list is empty,
\* otherwise the WAV bytes of the concatenated chunks
get_audio_bytes(data) ==
  IF data = <<>>
    THEN [raises |-> TRUE, bytes |-> NoBytes]
    ELSE [raises |-> FALSE, bytes |-> wavfile_write(sample_rate, concatenate(data))]

\* where the caller continues when a recorder method returns
AfterStart == IF frontend = "kivy" THEN "k_start_281" ELSE "idle"
AfterStop  == IF frontend = "kivy" THEN "k_stop_296" ELSE "idle"

\* (mutant) start_recording without the check of line 32
start_recording_32_NoCheck ==
  /\ Cardinality(Started) < MaxStarts
  /\ recording' = TRUE
  /\ stop_returned' = FALSE
  /\ pc' = "rec_start_36"
  /\ UNCHANGED <<audio_data, recording_thread, thread, callback, popup, raised>>

\* start_recording, lines 32-35: the check and the flag
start_recording_32 ==
  IF recording
    THEN /\ IF frontend = "kivy"
              THEN popup' = "start_error" /\ UNCHANGED raised
              ELSE raised' = "already_recording" /\ UNCHANGED popup
         /\ pc' = "idle"
         /\ UNCHANGED recVars
    ELSE /\ Cardinality(Started) < MaxStarts
         /\ recording' = TRUE
         /\ stop_returned' = FALSE
         /\ pc' = "rec_start_36"
         /\ UNCHANGED <<audio_data, recording_thread, thread, callback, popup, raised>>

\* (mutant) start_recording without the reset of line 36
start_recording_36_NoReset ==
  /\ pc = "rec_start_36"
  /\ LET t == Cardinality(Started) + 1 IN
       /\ recording_thread' = t
       /\ thread' = [thread EXCEPT ![t] = "open"]
  /\ pc' = AfterStart
  /\ raised' = IF frontend = "kivy" THEN raised ELSE "none"
  /\ UNCHANGED <<frontend, recording, audio_data, callback, stop_returned, kivyVars,
                 stVars, apiVars, trVars>>

\* start_recording, lines 36-38: the buffer is reset, the thread is started
start_recording_36 ==
  /\ pc = "rec_start_36"
  /\ LET t == Cardinality(Started) + 1 IN
       /\ audio_data' = <<>>
       /\ recording_thread' = t
       /\ thread' = [thread EXCEPT ![t] = "open"]
  /\ pc' = AfterStart
  /\ raised' = IF frontend = "kivy" THEN raised ELSE "none"
  /\ UNCHANGED <<frontend, recording, callback, stop_returned, kivyVars, stVars, apiVars, trVars>>

\* (mutant) stop_recording without the check of line 42
stop_recording_42_NoCheck ==
  /\ recording' = FALSE
  /\ pc' = "rec_stop_46"
  /\ UNCHANGED <<audio_data, recording_thread, thread, callback, stop_returned,
                 popup, raised>>

\* stop_recording, lines 42-45: the check and the flag
stop_recording_42 ==
  IF ~recording
    THEN /\ IF frontend = "kivy"
              THEN popup' = "stop_error" /\ UNCHANGED raised
              ELSE raised' = "not_recording" /\ UNCHANGED popup
         /\ pc' = "idle"
         /\ UNCHANGED recVars
    ELSE /\ recording' = FALSE
         /\ pc' = "rec_stop_46"
         /\ UNCHANGED <<audio_data, recording_thread, thread, callback, stop_returned,
                        popup, raised>>

\* (mutant) stop_recording without the join
Joined_NoJoin(t) == TRUE

\* Thread.join() returns once the thread has finished
Joined(t) == t = 0 \/ ~Alive(t)

\* stop_recording, lines 46-47: join the capture thread, then return
stop_recording_46 ==
  /\ pc = "rec_stop_46"
  /\ Joined(recording_thread)
  /\ stop_returned' = TRUE
  /\ pc' = AfterStop
  /\ raised' = IF frontend = "kivy" THEN raised ELSE "none"
  /\ UNCHANGED <<frontend, recording, audio_data, recording_thread, thread, callback,
                 kivyVars, stVars, apiVars, trVars>>

\* _record_audio, lines 97-103: sd.InputStream(...) opens, or raises
record_audio_98(t) ==
  /\ thread[t] = "open"
  /\ \E opened \in BOOLEAN :
       thread' = [thread EXCEPT ![t] = IF opened THEN "loop" ELSE "except"]
  /\ UNCHANGED <<frontend, pc, recording, audio_data, recording_thread, callback,
                 stop_returned, raised, kivyVars, stVars, apiVars, trVars>>

\* _record_audio, lines 104-105: the loop ends when the flag is seen false
record_audio_104(t) ==
  /\ thread[t] = "loop"
  /\ ~recording
  /\ thread' = [thread EXCEPT ![t] = "exit"]
  /\ UNCHANGED <<frontend, pc, recording, audio_data, recording_thread, callback,
                 stop_returned, raised, kivyVars, stVars, apiVars, trVars>>

\* leaving the with block stops and closes the stream, which waits for a
\* callback that is running; then the thread returns
CallbackQuiet(t) == callback[t] = "idle"

record_audio_exit(t) ==
  /\ thread[t] = "exit"
  /\ CallbackQuiet(t)
  /\ thread' = [thread EXCEPT ![t] = "done"]
  /\ UNCHANGED <<frontend, pc, recording, audio_data, recording_thread, callback,
                 stop_returned, raised, kivyVars, stVars, apiVars, trVars>>

\* (mutant) the except branch without line 108
record_audio_108_NoFlag(t) ==
  /\ thread[t] = "except"
  /\ thread' = [thread EXCEPT ![t] = "ret"]
  /\ UNCHANGED <<frontend, pc, recording, audio_data, recording_thread, callback,
                 stop_returned, raised, kivyVars, stVars, apiVars, trVars>>

\* _record_audio, lines 106-108: the exception is printed, the flag cleared
record_audio_108(t) ==
  /\ thread[t] = "except"
  /\ recording' = FALSE
  /\ thread' = [thread EXCEPT ![t] = "ret"]
  /\ UNCHANGED <<frontend, pc, audio_data, recording_thread, callback,
                 stop_returned, raised, kivyVars, stVars, apiVars, trVars>>

\* the failed thread returns from _record_audio
record_audio_ret(t) ==
  /\ thread[t] = "ret"
  /\ thread' = [thread EXCEPT ![t] = "done"]
  /\ UNCHANGED <<frontend, pc, recording, audio_data, recording_thread, callback,
                 stop_returned, raised, kivyVars, stVars, apiVars, trVars>>

\* audio_callback, line 94: the stream calls back; the flag is tested
audio_callback_94(t) ==
  /\ StreamOpen(t)
  /\ callback[t] = "idle"
  /\ Len(audio_data) < MaxChunks
  /\ recording
  /\ callback' = [callback EXCEPT ![t] = "checked"]
  /\ UNCHANGED <<frontend, pc, recording, audio_data, recording_thread, thread,
                 stop_returned, raised, kivyVars, stVars, apiVars, trVars>>

\* the block a callback of stream t receives: its frames are labelled t
indata(t) == <<t>>

\* audio_callback, line 95: the chunk is appended
audio_callback_95(t) ==
  /\ callback[t] = "checked"
  /\ audio_data' = Append(audio_data, indata(t))
  /\ callback' = [callback EXCEPT ![t] = "idle"]
  /\ UNCHANGED <<frontend, pc, recording, recording_thread, thread,
                 stop_returned, raised, kivyVars, stVars, apiVars, trVars>>

\* one step of capture thread t
record_audio(t) ==
  \/ record_audio_98(t)
  \/ record_audio_104(t)
  \/ record_audio_exit(t)
  \/ record_audio_108(t)
  \/ record_audio_ret(t)

\* one step of the callback of thread t's stream
audio_callback(t) ==
  \/ audio_callback_94(t)
  \/ audio_callback_95(t)

CaptureStep == \E t \in Threads : record_audio(t) \/ audio_callback(t)

(***************************************************************************)
(* SpeechTranscriber                                                       *)
(***************************************************************************)

\* the values of the model selection (kivy_app.py:194, app.py:94)
ModelSizes == {"tiny", "base", "small", "medium", "large"}

\* self._model = None
NoModel == [size |-> "none", by |-> 0]

\* WhisperModel(model_size, ...) constructed in the call of worker w
WhisperModel(model_size, w) == [size |-> model_size, by |-> w]

\* __init__ (lines 19-20), as a value
SpeechTranscriber(model_size) == [model_size |-> model_size, model |-> NoModel]

\* get_model_info (lines 92-95) of the object o
get_model_info(o) ==
  [model_size |-> transcribers[o].model_size, loaded |-> transcribers[o].model # NoModel]

\* self.transcriber of the application: the object constructed last
transcriber == Len(transcribers)

\* SpeechTranscriber() in the application's __init__, spinner text "base"
TranscriberInit ==
  /\ transcribers = <<SpeechTranscriber("base")>>
  /\ model_spinner = "base"
  /\ tb_self = [w \in Runs |-> 0]
  /\ temp_file = [w \in Runs |-> "none"]

(***************************************************************************)
(* RecordNoteKivyApp                                                       *)
(***************************************************************************)

\* __init__ and build(): state "stopped", record enabled, the others disabled
KivyInit ==
  /\ recording_state = "stopped"
  /\ transcribed_text = 0
  /\ formatted_minutes = 0
  /\ btn = [record |-> FALSE, stop |-> TRUE, download |-> TRUE, new_recording |-> TRUE]
  /\ results_text = Placeholder
  /\ popup = "none"
  /\ clock = <<>>
  /\ worker = [w \in Runs |-> "none"]
  /\ audio_bytes = [w \in Runs |-> NoBytes]
  /\ last_cmd = <<"none", "stopped">>

\* _update_ui_for_recording_state: the .disabled flags after the call
update_ui_for_recording_state(state, b) ==
  CASE state = "stopped" ->
         [record |-> FALSE, stop |-> TRUE, download |-> TRUE, new_recording |-> TRUE]
    [] state = "recording" ->
         [b EXCEPT !.record = TRUE, !.stop = FALSE]
    [] state = "processing" ->
         [b EXCEPT !.record = TRUE, !.stop = TRUE]
    [] state = "completed" ->
         [record |-> FALSE, stop |-> TRUE, download |-> FALSE, new_recording |-> FALSE]
    [] OTHER -> b

\* start_recording (on_release of record_button), line 280: recorder.start_recording()
start_recording_280 ==
  /\ frontend = "kivy"
  /\ pc = "idle"
  /\ ~btn.record
  /\ start_recording_32
  /\ last_cmd' = <<"start_recording", recording_state>>
  /\ UNCHANGED <<frontend, recording_state, transcribed_text, formatted_minutes, btn,
                 results_text, clock, worker, audio_bytes, stVars, apiVars, trVars>>

\* start_recording, line 281
start_recording_281 ==
  /\ pc = "k_start_281"
  /\ recording_state' = "recording"
  /\ pc' = "k_start_282"
  /\ UNCHANGED <<frontend, recVars, raised, transcribed_text, formatted_minutes, btn,
                 results_text, popup, clock, worker, audio_bytes, last_cmd, stVars, apiVars, trVars>>

\* start_recording, lines 282-287
start_recording_282 ==
  /\ pc = "k_start_282"
  /\ btn' = update_ui_for_recording_state(recording_state, btn)
  /\ pc' = "idle"
  /\ UNCHANGED <<frontend, recVars, raised, recording_state, transcribed_text,
                 formatted_minutes, results_text, popup, clock, worker, audio_bytes, last_cmd, stVars, apiVars, trVars>>

\* stop_recording (on_release of stop_button), line 295: recorder.stop_recording()
stop_recording_295 ==
  /\ frontend = "kivy"
  /\ pc = "idle"
  /\ ~btn.stop
  /\ stop_recording_42
  /\ last_cmd' = <<"stop_recording", recording_state>>
  /\ UNCHANGED <<frontend, recording_state, transcribed_text, formatted_minutes, btn,
                 results_text, clock, worker, audio_bytes, stVars, apiVars, trVars>>

\* stop_recording, line 296
stop_recording_296 ==
  /\ pc = "k_stop_296"
  /\ recording_state' = "processing"
  /\ pc' = "k_stop_297"
  /\ UNCHANGED <<frontend, recVars, raised, transcribed_text, formatted_minutes, btn,
                 results_text, popup, clock, worker, audio_bytes, last_cmd, stVars, apiVars, trVars>>

\* stop_recording, lines 297-305: the UI is updated, the worker thread started
stop_recording_297 ==
  /\ pc = "k_stop_297"
  /\ btn' = update_ui_for_recording_state(recording_state, btn)
  /\ LET w == Cardinality(Spawned) + 1 IN
       worker' = [worker EXCEPT ![w] = "w_314"]
  /\ pc' = "idle"
  /\ UNCHANGED <<frontend, recVars, raised, recording_state, transcribed_text,
                 formatted_minutes, results_text, popup, clock, audio_bytes, last_cmd, stVars, apiVars, trVars>>

\* start_new_recording (on_release of new_recording_button), line 454
start_new_recording_454 ==
  /\ frontend = "kivy"
  /\ pc = "idle"
  /\ ~btn.new_recording
  /\ recording_state' = "stopped"
  /\ pc' = "k_new_455"
  /\ last_cmd' = <<"start_new_recording", recording_state>>
  /\ UNCHANGED <<frontend, recVars, raised, transcribed_text, formatted_minutes, btn,
                 results_text, popup, clock, worker, audio_bytes, stVars, apiVars, trVars>>

\* start_new_recording, line 455
start_new_recording_455 ==
  /\ pc = "k_new_455"
  /\ transcribed_text' = 0
  /\ pc' = "k_new_456"
  /\ UNCHANGED <<frontend, recVars, raised, recording_state, formatted_minutes, btn,
                 results_text, popup, clock, worker, audio_bytes, last_cmd, stVars, apiVars, trVars>>

\* start_new_recording, lines 456-463
start_new_recording_456 ==
  /\ pc = "k_new_456"
  /\ formatted_minutes' = 0
  /\ results_text' = Placeholder
  /\ pc' = "k_new_465"
  /\ UNCHANGED <<frontend, recVars, raised, recording_state, transcribed_text, btn,
                 popup, clock, worker, audio_bytes, last_cmd, stVars, apiVars, trVars>>

\* start_new_recording, line 465
start_new_recording_465 ==
  /\ pc = "k_new_465"
  /\ btn' = update_ui_for_recording_state(recording_state, btn)
  /\ pc' = "idle"
  /\ UNCHANGED <<frontend, recVars, raised, recording_state, transcribed_text,
                 formatted_minutes, results_text, popup, clock, worker, audio_bytes, last_cmd, stVars, apiVars, trVars>>

\* (mutant) on_model_change that sets model_size on the object in use
on_model_change_InPlace(text) ==
  /\ frontend \in {"kivy", "transcriber"}
  /\ pc = "idle"
  /\ text # model_spinner
  /\ Len(transcribers) < MaxTranscribers
  /\ model_spinner' = text
  /\ transcribers' = [transcribers EXCEPT ![transcriber].model_size = text]
  /\ UNCHANGED <<frontend, pc, recVars, raised, kivyVars, stVars, apiVars, tb_self, temp_file>>

\* on_model_change (bound to the text of model_spinner), lines 421-424: the
\* user selects another value; a new SpeechTranscriber replaces the old one
on_model_change(text) ==
  /\ frontend \in {"kivy", "transcriber"}
  /\ pc = "idle"
  /\ text # model_spinner
  /\ Len(transcribers) < MaxTranscribers
  /\ model_spinner' = text
  /\ transcribers' = IF text # transcribers[transcriber].model_size
                       THEN Append(transcribers, SpeechTranscriber(text))
                       ELSE transcribers
  /\ UNCHANGED <<frontend, pc, recVars, raised, kivyVars, stVars, apiVars, tb_self, temp_file>>

\* the Clock runs the next scheduled callback on the UI thread:
\* _show_error (line 343), _update_ui_for_recording_state (line 345) or
\* _update_ui_after_processing (lines 347-363)
ClockTick ==
  /\ frontend = "kivy"
  /\ pc = "idle"
  /\ clock # <<>>
  /\ clock' = Tail(clock)
  /\ CASE Head(clock) = "show_error" ->
            /\ popup' = "process_error"
            /\ UNCHANGED <<btn, results_text>>
       [] Head(clock) = "update_ui" ->
            /\ btn' = update_ui_for_recording_state(recording_state, btn)
            /\ UNCHANGED <<popup, results_text>>
       [] Head(clock) = "after_processing" ->
            /\ results_text' = formatted_minutes
            /\ btn' = update_ui_for_recording_state(recording_state, btn)
            /\ UNCHANGED popup
  /\ UNCHANGED <<frontend, pc, recVars, raised, recording_state, transcribed_text,
                 formatted_minutes, worker, audio_bytes, last_cmd, stVars, apiVars, trVars>>

(***************************************************************************)
(* _process_recording, one thread per run                                  *)
(***************************************************************************)

\* line 314: recorder.get_audio_bytes() returns the bytes or raises
process_recording_314(w) ==
  /\ worker[w] = "w_314"
  /\ IF get_audio_bytes(audio_data).raises
       THEN /\ worker' = [worker EXCEPT ![w] = "w_343"]
            /\ UNCHANGED audio_bytes
       ELSE /\ audio_bytes' = [audio_bytes EXCEPT ![w] = get_audio_bytes(audio_data).bytes]
            /\ worker' = [worker EXCEPT ![w] = "w_320"]
  /\ UNCHANGED <<frontend, pc, recVars, raised, recording_state, transcribed_text,
                 formatted_minutes, btn, results_text, popup, clock, last_cmd, stVars, apiVars, trVars>>

\* line 320, self.transcriber.transcribe_bytes(audio_bytes), up to
\* transcriber.py:76-78: the temporary file is created (delete=False) and the
\* bytes are written to it, or the write raises and the with block closes the
\* file, which stays on disk
process_recording_320(w) ==
  /\ worker[w] = "w_320"
  /\ tb_self' = [tb_self EXCEPT ![w] = transcriber]
  /\ temp_file' = [temp_file EXCEPT ![w] = "exists"]
  /\ \E written \in BOOLEAN :
       worker' = [worker EXCEPT ![w] = IF written THEN "tf_37" ELSE "w_343"]
  /\ audio_bytes' = [audio_bytes EXCEPT ![w] = NoBytes]
  /\ UNCHANGED <<frontend, pc, recVars, raised, recording_state, transcribed_text,
                 formatted_minutes, btn, results_text, popup, clock, last_cmd, stVars,
                 apiVars, transcribers, model_spinner>>

\* the finally clause of transcribe_bytes (transcriber.py:82-84)
unlink(files, w) == [files EXCEPT ![w] = "none"]

\* transcribe_file, transcriber.py:37-40 and load_model, line 24: the file is
\* there, or it has been removed meanwhile and FileNotFoundError is raised
\* (then the finally clause runs); load_model tests self._model
transcribe_file_37(w) ==
  /\ worker[w] = "tf_37"
  /\ \E exists \in BOOLEAN :
       IF ~exists
         THEN /\ temp_file' = unlink(temp_file, w)
              /\ worker' = [worker EXCEPT ![w] = "w_343"]
         ELSE /\ worker' = [worker EXCEPT ![w] =
                   IF transcribers[tb_self[w]].model = NoModel THEN "lm_26" ELSE "tf_44"]
              /\ UNCHANGED temp_file
  /\ UNCHANGED <<frontend, pc, recVars, raised, recording_state, transcribed_text,
                 formatted_minutes, btn, results_text, popup, clock, audio_bytes, last_cmd,
                 stVars, apiVars, transcribers, model_spinner, tb_self>>

\* load_model, transcriber.py:25-26: WhisperModel(...) returns and is stored,
\* or raises (then the finally clause runs)
load_model_26(w) ==
  /\ worker[w] = "lm_26"
  /\ LET self == tb_self[w] IN
       \/ /\ transcribers' = [transcribers EXCEPT ![self].model =
                                 WhisperModel(transcribers[self].model_size, w)]
          /\ worker' = [worker EXCEPT ![w] = "tf_44"]
          /\ UNCHANGED temp_file
       \/ /\ temp_file' = unlink(temp_file, w)
          /\ worker' = [worker EXCEPT ![w] = "w_343"]
          /\ UNCHANGED transcribers
  /\ UNCHANGED <<frontend, pc, recVars, raised, recording_state, transcribed_text,
                 formatted_minutes, btn, results_text, popup, clock, audio_bytes, last_cmd,
                 stVars, apiVars, model_spinner, tb_self>>

\* transcribe_file, transcriber.py:44-64: the engine returns a result, whose
\* text may be empty, or raises; the finally clause runs; on return the text
\* is stored (kivy_app.py:321)
transcribe_file_44(w) ==
  /\ worker[w] = "tf_44"
  /\ \/ \E text \in {0, w} :
          /\ transcribed_text' = text
          /\ worker' = [worker EXCEPT ![w] = "w_332"]
     \/ /\ worker' = [worker EXCEPT ![w] = "w_343"]
        /\ UNCHANGED transcribed_text
  /\ temp_file' = unlink(temp_file, w)
  /\ UNCHANGED <<frontend, pc, recVars, raised, recording_state, formatted_minutes,
                 btn, results_text, popup, clock, audio_bytes, last_cmd, stVars,
                 apiVars, transcribers, model_spinner, tb_self>>

\* lines 327-336: format_minutes returns the document of this run, never
\* empty (it begins with the header), or raises
process_recording_332(w) ==
  /\ worker[w] = "w_332"
  /\ \/ /\ formatted_minutes' = w
        /\ worker' = [worker EXCEPT ![w] = "w_337"]
     \/ /\ worker' = [worker EXCEPT ![w] = "w_343"]
        /\ UNCHANGED formatted_minutes
  /\ UNCHANGED <<frontend, pc, recVars, raised, recording_state, transcribed_text,
                 btn, results_text, popup, clock, audio_bytes, last_cmd, stVars, apiVars, trVars>>

\* line 337
process_recording_337(w) ==
  /\ worker[w] = "w_337"
  /\ recording_state' = "completed"
  /\ worker' = [worker EXCEPT ![w] = "w_340"]
  /\ UNCHANGED <<frontend, pc, recVars, raised, transcribed_text, formatted_minutes,
                 btn, results_text, popup, clock, audio_bytes, last_cmd, stVars, apiVars, trVars>>

\* line 340
process_recording_340(w) ==
  /\ worker[w] = "w_340"
  /\ clock' = Append(clock, "after_processing")
  /\ worker' = [worker EXCEPT ![w] = "done"]
  /\ UNCHANGED <<frontend, pc, recVars, raised, recording_state, transcribed_text,
                 formatted_minutes, btn, results_text, popup, audio_bytes, last_cmd, stVars, apiVars, trVars>>

\* line 343 (except)
process_recording_343(w) ==
  /\ worker[w] = "w_343"
  /\ clock' = Append(clock, "show_error")
  /\ worker' = [worker EXCEPT ![w] = "w_344"]
  /\ UNCHANGED <<frontend, pc, recVars, raised, recording_state, transcribed_text,
                 formatted_minutes, btn, results_text, popup, audio_bytes, last_cmd, stVars, apiVars, trVars>>

\* (mutant) the except branch leaves recording_state as it is
process_recording_344_NoReset(w) ==
  /\ worker[w] = "w_344"
  /\ worker' = [worker EXCEPT ![w] = "w_345"]
  /\ UNCHANGED <<frontend, pc, recVars, raised, recording_state, transcribed_text,
                 formatted_minutes, btn, results_text, popup, clock, audio_bytes, last_cmd, stVars, apiVars, trVars>>

\* line 344
process_recording_344(w) ==
  /\ worker[w] = "w_344"
  /\ recording_state' = "stopped"
  /\ worker' = [worker EXCEPT ![w] = "w_345"]
  /\ UNCHANGED <<frontend, pc, recVars, raised, transcribed_text, formatted_minutes,
                 btn, results_text, popup, clock, audio_bytes, last_cmd, stVars, apiVars, trVars>>

\* line 345
process_recording_345(w) ==
  /\ worker[w] = "w_345"
  /\ clock' = Append(clock, "update_ui")
  /\ worker' = [worker EXCEPT ![w] = "done"]
  /\ UNCHANGED <<frontend, pc, recVars, raised, recording_state, transcribed_text,
                 formatted_minutes, btn, results_text, popup, audio_bytes, last_cmd, stVars, apiVars, trVars>>

\* one step of worker w
process_recording(w) ==
  \/ process_recording_314(w)
  \/ process_recording_320(w)
  \/ transcribe_file_37(w)
  \/ load_model_26(w)
  \/ transcribe_file_44(w)
  \/ process_recording_332(w)
  \/ process_recording_337(w)
  \/ process_recording_340(w)
  \/ process_recording_343(w)
  \/ process_recording_344(w)
  \/ process_recording_345(w)

WorkerStep == \E w \in Runs : process_recording(w)

\* a _process_recording thread that has been started and has not yet returned
Running(w) == worker[w] \notin {"none", "done"}

(***************************************************************************)
(* RecordNoteApp under Streamlit: main() runs once per script run          *)
(***************************************************************************)

\* run(), lines 36-41: the defaults of st.session_state
StreamlitInit ==
  /\ st_session = [recording_state |-> "stopped", transcribed_text |-> 0,
                   formatted_minutes |-> 0]
  /\ st_apps = 0
  /\ st_recorders = <<>>
  /\ st_rerun = FALSE
  /\ st_model_size = "base"
  /\ st_error = "none"

\* AudioRecorder.__init__ (recorder.py:24-28), as a value
NewRecorder == [recording |-> FALSE, audio_data |-> <<>>, thread |-> "none"]

\* AudioRecorder.start_recording on the recorder r (recorder.py:30-38)
recorder_start_recording(r) ==
  IF r.recording
    THEN [ok |-> FALSE, recorder |-> r]
    ELSE [ok |-> TRUE,
          recorder |-> [recording |-> TRUE, audio_data |-> <<>>, thread |-> "open"]]

\* AudioRecorder.stop_recording on the recorder r (recorder.py:40-47); it
\* returns when the joined thread, if any, has left its loop and finished
recorder_stop_recording(r) ==
  IF ~r.recording
    THEN [ok |-> FALSE, recorder |-> r]
    ELSE [ok |-> TRUE,
          recorder |-> [r EXCEPT !.recording = FALSE,
                                 !.thread = IF @ = "none" THEN @ ELSE "done"]]

\* the buttons the page shows for a session state (app.py:60-84, 111-131)
ButtonShown(b) ==
  CASE b = "start" -> st_session.recording_state = "stopped"
    [] b = "stop"  -> st_session.recording_state = "recording"
    [] b = "new"   -> st_session.formatted_minutes # 0
    [] OTHER       -> FALSE

\* _process_recording (app.py:139-176) with the recorder r of this run:
\* the session after it, for the outcome the transcriber and formatter give
st_process_recording(r, outcome, text) ==
  IF get_audio_bytes(r.audio_data).raises \/ outcome = "transcribe_raises"
    THEN [st_session EXCEPT !.recording_state = "stopped"]
    ELSE IF outcome = "format_raises"
      THEN [st_session EXCEPT !.transcribed_text = text, !.recording_state = "stopped"]
      ELSE [recording_state |-> "completed", transcribed_text |-> text,
            formatted_minutes |-> st_apps + 1]

\* _reset_session (app.py:178-182)
reset_session ==
  [recording_state |-> "stopped", transcribed_text |-> 0, formatted_minutes |-> 0]

\* One script run: main() constructs a RecordNoteApp, whose recorder is new,
\* and run() renders the page.  The run is caused by st.rerun(), by the
\* button pressed, or by a new choice in the selectbox (pressed is "none").
main(pressed, model_size) ==
  /\ frontend = "streamlit"
  /\ st_apps < MaxRuns
  /\ IF st_rerun
       THEN pressed = "none" /\ model_size = st_model_size
       ELSE IF pressed = "none"
              THEN model_size # st_model_size
              ELSE ButtonShown(pressed) /\ model_size = st_model_size
  /\ st_apps' = st_apps + 1
  /\ st_model_size' = model_size
  /\ LET recorder == NewRecorder
         state == st_session.recording_state
     IN
       IF state = "stopped" /\ pressed = "start" THEN
         \* lines 61-67
         LET res == recorder_start_recording(recorder) IN
           IF res.ok
             THEN /\ st_recorders' = Append(st_recorders, res.recorder)
                  /\ st_session' = [st_session EXCEPT !.recording_state = "recording"]
                  /\ st_rerun' = TRUE
                  /\ st_error' = "none"
             ELSE /\ st_error' = "start_error"
                  /\ st_rerun' = FALSE
                  /\ UNCHANGED <<st_recorders, st_session>>
       ELSE IF state = "recording" /\ pressed = "stop" THEN
         \* lines 78-84
         LET res == recorder_stop_recording(recorder) IN
           IF res.ok
             THEN /\ st_session' = [st_session EXCEPT !.recording_state = "processing"]
                  /\ st_rerun' = TRUE
                  /\ st_error' = "none"
                  /\ UNCHANGED st_recorders
             ELSE /\ st_error' = "stop_error"
                  /\ st_rerun' = FALSE
                  /\ UNCHANGED <<st_recorders, st_session>>
       ELSE IF state = "processing" THEN
         \* lines 86-88
         /\ \E outcome \in {"ok", "transcribe_raises", "format_raises"}, text \in {0, st_apps + 1} :
              st_session' = st_process_recording(recorder, outcome, text)
         /\ st_error' = IF st_session'.recording_state = "stopped"
                          THEN "process_error" ELSE "none"
         /\ st_rerun' = TRUE
         /\ UNCHANGED st_recorders
       ELSE IF st_session.formatted_minutes # 0 /\ pressed = "new" THEN
         \* lines 129-131
         /\ st_session' = reset_session
         /\ st_rerun' = TRUE
         /\ st_error' = "none"
         /\ UNCHANGED st_recorders
       ELSE
         \* nothing pressed that this page handles
         /\ st_rerun' = FALSE
         /\ st_error' = "none"
         /\ UNCHANGED <<st_recorders, st_session>>
  /\ UNCHANGED <<frontend, pc, recVars, raised, kivyVars, apiVars, trVars>>

\* a step of the capture thread of the i-th started recorder
\* (recorder.py:97-108): the stream opens or raises; the loop ends when the
\* flag is false; the except branch clears the flag
st_record_audio(i) ==
  /\ i \in 1..Len(st_recorders)
  /\ LET r == st_recorders[i] IN
       /\ r.thread \in {"open", "except"} \/ (r.thread = "loop" /\ ~r.recording)
       /\ \E opened \in BOOLEAN :
            st_recorders' =
              CASE r.thread = "open" ->
                     [st_recorders EXCEPT ![i].thread = IF opened THEN "loop" ELSE "except"]
                [] r.thread = "loop" ->
                     [st_recorders EXCEPT ![i].thread = "done"]
                [] r.thread = "except" ->
                     [st_recorders EXCEPT ![i].thread = "done", ![i].recording = FALSE]
  /\ UNCHANGED <<frontend, pc, recVars, raised, kivyVars, apiVars, trVars, st_session, st_apps,
                 st_rerun, st_model_size, st_error>>

\* the stream of the i-th started recorder delivers a chunk
\* (recorder.py:88-95)
st_audio_callback(i) ==
  /\ i \in 1..Len(st_recorders)
  /\ LET r == st_recorders[i] IN
       /\ r.thread = "loop"
       /\ r.recording
       /\ Len(r.audio_data) < MaxChunks
       /\ st_recorders' = [st_recorders EXCEPT ![i].audio_data = Append(@, indata(i))]
  /\ UNCHANGED <<frontend, pc, recVars, raised, kivyVars, apiVars, trVars, st_session, st_apps,
                 st_rerun, st_model_size, st_error>>

InitSt ==
  /\ frontend = "streamlit"
  /\ pc = "idle"
  /\ raised = "none"
  /\ returned = "none"
  /\ wav_bytes = NoBytes
  /\ NoCall
  /\ AudioRecorderInit
  /\ TranscriberInit
  /\ KivyInit
  /\ StreamlitInit

ScriptRun ==
  \E pressed \in {"none", "start", "stop", "new"}, model_size \in ModelSizes :
    main(pressed, model_size)

StCaptureStep == \E i \in 1..MaxRuns : st_record_audio(i) \/ st_audio_callback(i)

NextSt == ScriptRun \/ StCaptureStep

SpecSt == InitSt /\ [][NextSt]_vars

(***************************************************************************)
(* The Kivy session                                                        *)
(***************************************************************************)

Init ==
  /\ frontend = "kivy"
  /\ pc = "idle"
  /\ raised = "none"
  /\ returned = "none"
  /\ wav_bytes = NoBytes
  /\ NoCall
  /\ AudioRecorderInit
  /\ TranscriberInit
  /\ KivyInit
  /\ StreamlitInit

\* the user releases an enabled button
Press ==
  \/ start_recording_280
  \/ stop_recording_295
  \/ start_new_recording_454

\* the UI thread goes on with the handler it is in, or runs a Clock callback
UIContinue ==
  \/ start_recording_36
  \/ start_recording_281
  \/ start_recording_282
  \/ stop_recording_46
  \/ stop_recording_296
  \/ stop_recording_297
  \/ start_new_recording_455
  \/ start_new_recording_456
  \/ start_new_recording_465
  \/ ClockTick

UIStep == Press \/ UIContinue

Next == UIStep \/ CaptureStep \/ WorkerStep

Spec == Init /\ [][Next]_vars

\* the same session with a user who also changes the model selection
ModelChange == \E text \in ModelSizes : on_model_change(text)

NextModel == Next \/ ModelChange

SpecModel == Init /\ [][NextModel]_vars

\* Threads that can run do run: the UI thread finishes the handler it is in
\* and runs scheduled callbacks, a capture thread and a callback in progress
\* go on, a worker goes on (transcribe_bytes returns or raises).  The user
\* and the audio device are not obliged to do anything.
Fairness ==
  /\ WF_vars(UIContinue)
  /\ \A t \in Threads : WF_vars(record_audio(t)) /\ WF_vars(audio_callback_95(t))
  /\ \A w \in Runs : WF_vars(process_recording(w))

FairSpec == Init /\ [][Next]_vars /\ Fairness

\* the same, with a user who keeps pressing the stop button while it is enabled
FairStopSpec == Init /\ [][Next]_vars /\ Fairness /\ WF_vars(stop_recording_295)

(***************************************************************************)
(* AudioRecorder driven directly: any order of calls                       *)
(***************************************************************************)

api_start_recording ==
  /\ frontend = "api"
  /\ pc = "idle"
  /\ start_recording_32
  /\ UNCHANGED <<frontend, recording_state, transcribed_text, formatted_minutes, btn,
                 results_text, clock, worker, audio_bytes, last_cmd, stVars, apiVars, trVars>>

api_stop_recording ==
  /\ frontend = "api"
  /\ pc = "idle"
  /\ stop_recording_42
  /\ UNCHANGED <<frontend, recording_state, transcribed_text, formatted_minutes, btn,
                 results_text, clock, worker, audio_bytes, last_cmd, stVars, apiVars, trVars>>

\* is_recording, line 116
is_recording == recording

api_is_recording ==
  /\ frontend = "api"
  /\ pc = "idle"
  /\ returned' = IF is_recording THEN "True" ELSE "False"
  /\ raised' = "none"
  /\ UNCHANGED <<frontend, pc, recVars, kivyVars, stVars, wav_bytes, args, result, trVars>>

api_get_audio_bytes ==
  /\ frontend \in {"api", "wav"}
  /\ pc = "idle"
  /\ LET res == get_audio_bytes(audio_data) IN
       /\ raised' = IF res.raises THEN "no_audio_data" ELSE "none"
       /\ wav_bytes' = IF res.raises THEN wav_bytes ELSE res.bytes
  /\ UNCHANGED <<frontend, pc, recVars, kivyVars, stVars, returned, args, result, trVars>>

InitRec ==
  /\ frontend = "api"
  /\ pc = "idle"
  /\ raised = "none"
  /\ returned = "none"
  /\ wav_bytes = NoBytes
  /\ NoCall
  /\ AudioRecorderInit
  /\ TranscriberInit
  /\ KivyInit
  /\ StreamlitInit

CallerStep ==
  \/ api_start_recording
  \/ start_recording_36
  \/ api_stop_recording
  \/ stop_recording_46
  \/ api_is_recording
  \/ api_get_audio_bytes

NextRec == CallerStep \/ CaptureStep

SpecRec == InitRec /\ [][NextRec]_vars

\* a call in progress returns, a capture thread that can run does run
FairSpecRec ==
  /\ InitRec /\ [][NextRec]_vars
  /\ WF_vars(start_recording_36) /\ WF_vars(stop_recording_46)
  /\ \A t \in Threads : WF_vars(record_audio(t)) /\ WF_vars(audio_callback_95(t))

(***************************************************************************)
(* The application's SpeechTranscriber driven directly: transcribe_bytes   *)
(* called by any number of threads at any time, and changes of the model   *)
(* selection                                                               *)
(***************************************************************************)

\* calls of transcribe_bytes explored
MaxCallers == 2

\* a thread calls self.transcriber.transcribe_bytes(audio_bytes)
api_transcribe_bytes(w) ==
  /\ frontend = "transcriber"
  /\ Cardinality(Spawned) < MaxCallers
  /\ w = Cardinality(Spawned) + 1
  /\ worker' = [worker EXCEPT ![w] = "w_320"]
  /\ audio_bytes' = [audio_bytes EXCEPT ![w] = wavfile_write(sample_rate, indata(w))]
  /\ UNCHANGED <<frontend, pc, recVars, raised, recording_state, transcribed_text,
                 formatted_minutes, btn, results_text, popup, clock, last_cmd, stVars,
                 apiVars, trVars>>

\* one step of the transcribe_bytes call of thread w
transcribe_bytes(w) ==
  \/ process_recording_320(w)
  \/ transcribe_file_37(w)
  \/ load_model_26(w)
  \/ transcribe_file_44(w)

InitTr ==
  /\ frontend = "transcriber"
  /\ pc = "idle"
  /\ raised = "none"
  /\ returned = "none"
  /\ wav_bytes = NoBytes
  /\ NoCall
  /\ AudioRecorderInit
  /\ TranscriberInit
  /\ KivyInit
  /\ StreamlitInit

NextTr ==
  \/ \E w \in Runs : api_transcribe_bytes(w)
  \/ \E w \in Runs : transcribe_bytes(w)
  \/ ModelChange

SpecTr == InitTr /\ [][NextTr]_vars

(***************************************************************************)
(* get_audio_bytes on any buffer                                           *)
(***************************************************************************)

\* chunks per buffer, frames per chunk and sample values explored
MaxWavChunks == 2
MaxFrames == 2
MaxSample == 2

\* the arrays of at most MaxFrames frames
Arrays == UNION {[1..n -> 0..MaxSample] : n \in 1..MaxFrames}

\* the buffers of at most MaxWavChunks chunks
Buffers == UNION {[1..n -> Arrays] : n \in 0..MaxWavChunks}

InitWav ==
  /\ frontend = "wav"
  /\ pc = "idle"
  /\ raised = "none"
  /\ returned = "none"
  /\ wav_bytes = NoBytes
  /\ NoCall
  /\ audio_data \in Buffers
  /\ recording = FALSE
  /\ recording_thread = 0
  /\ thread = [t \in Threads |-> "none"]
  /\ callback = [t \in Threads |-> "idle"]
  /\ stop_returned = FALSE
  /\ TranscriberInit
  /\ KivyInit
  /\ StreamlitInit

SpecWav == InitWav /\ [][api_get_audio_bytes]_vars

(***************************************************************************)
(* Strings.  A string is the sequence of its characters; a character is    *)
(* written as itself when it is ASCII and as its code point otherwise.     *)
(***************************************************************************)

\* the characters str.isspace() holds of (and \s matches): space, newline,
\* ideographic space
Whitespace == {" ", "\n", "U+3000"}

RECURSIVE lstrip(_)
lstrip(s) == IF s # <<>> /\ Head(s) \in Whitespace THEN lstrip(Tail(s)) ELSE s

RECURSIVE rstrip(_)
rstrip(s) ==
  IF s # <<>> /\ s[Len(s)] \in Whitespace THEN rstrip(SubSeq(s, 1, Len(s) - 1)) ELSE s

\* str.strip()
strip(s) == rstrip(lstrip(s))

\* the strings of at most n characters of the alphabet
Strings(alphabet, n) == UNION {[1..k -> alphabet] : k \in 0..n}

\* a function of transcriber.py or formatter.py is called directly and returns
Return(value) ==
  /\ pc = "idle"
  /\ pc' = "returned"
  /\ result' = value
  /\ UNCHANGED <<frontend, recVars, raised, kivyVars, stVars, returned, wav_bytes, args,
                 trVars>>

\* the components before a direct call made by caller f
DirectInit(f) ==
  /\ frontend = f
  /\ pc = "idle"
  /\ raised = "none"
  /\ returned = "none"
  /\ wav_bytes = NoBytes
  /\ result = <<>>
  /\ AudioRecorderInit
  /\ TranscriberInit
  /\ KivyInit
  /\ StreamlitInit

(***************************************************************************)
(* transcribe_file on any sequence of segments the engine may return       *)
(***************************************************************************)

\* segments per transcription and characters per segment text explored
MaxSegments == 3
MaxSegmentText == 2

\* the loop of transcriber.py:51-58 that skips the segments with no text
RECURSIVE transcribe_file_51_SkipEmpty(_, _, _)
transcribe_file_51_SkipEmpty(segments, segments_list, full_text) ==
  IF segments = <<>>
  THEN [segments_list |-> segments_list, full_text |-> full_text]
  ELSE LET segment == Head(segments) IN
       IF strip(segment.text) = <<>>
       THEN transcribe_file_51_SkipEmpty(Tail(segments), segments_list, full_text)
       ELSE transcribe_file_51_SkipEmpty(Tail(segments),
              Append(segments_list, [start |-> segment.start, end |-> segment.end,
                                     text |-> strip(segment.text)]),
              full_text \o strip(segment.text) \o <<" ">>)

\* the loop of transcriber.py:51-58 over the segments not yet visited
RECURSIVE transcribe_file_51(_, _, _)
transcribe_file_51(segments, segments_list, full_text) ==
  IF segments = <<>>
  THEN [segments_list |-> segments_list, full_text |-> full_text]
  ELSE LET segment == Head(segments)
           segment_dict == [start |-> segment.start, end |-> segment.end,
                            text |-> strip(segment.text)]
       IN transcribe_file_51(Tail(segments), Append(segments_list, segment_dict),
                             full_text \o strip(segment.text) \o <<" ">>)

\* transcriber.py:44-64, given what self._model.transcribe returned
transcribe_file(segments, info) ==
  LET loop == transcribe_file_51(segments, <<>>, <<>>) IN
    [text |-> strip(loop.full_text), language |-> info.language,
     segments |-> loop.segments_list]

\* the segments the engine may return: any text, one second each
EngineSegments ==
  {[start |-> t, end |-> t + 1, text |-> s] :
     t \in 0..1, s \in Strings({"a", " "}, MaxSegmentText)}

InitTf ==
  /\ DirectInit("transcribe_file")
  /\ args \in {[segments |-> segs, info |-> [language |-> "ja"]] :
                 segs \in UNION {[1..n -> EngineSegments] : n \in 0..MaxSegments}}

call_transcribe_file ==
  /\ frontend = "transcribe_file"
  /\ Return(transcribe_file(args.segments, args.info))

SpecTf == InitTf /\ [][call_transcribe_file]_vars

(***************************************************************************)
(* _clean_text on any text                                                 *)
(***************************************************************************)

\* characters per text explored
MaxTextLen == 6

\* the sentence delimiters of formatter.py:122: ideographic full stop,
\* fullwidth exclamation mark, fullwidth question mark
Delimiters == {"U+3002", "U+FF01", "U+FF1F"}

\* re.sub(r"\s+", " ", s) that leaves every whitespace character as it is
re_sub_Keep(s) == s

\* re.sub(r"\s+", " ", s): every maximal run of whitespace becomes one space
RECURSIVE re_sub(_)
re_sub(s) ==
  IF s = <<>> THEN <<>>
  ELSE IF Head(s) \in Whitespace THEN <<" ">> \o re_sub(lstrip(Tail(s)))
  ELSE <<Head(s)>> \o re_sub(Tail(s))

\* re.split(r"([。！？])", s), piece being the text read since the last
\* delimiter: the pieces and the delimiters, alternating, a piece first and last
RECURSIVE re_split(_, _)
re_split(s, piece) ==
  IF s = <<>> THEN <<piece>>
  ELSE IF Head(s) \in Delimiters
       THEN <<piece, <<Head(s)>>>> \o re_split(Tail(s), <<>>)
       ELSE re_split(Tail(s), Append(piece, Head(s)))

\* the loop of formatter.py:125-128 from index i (i - 1 in the source, whose
\* lists start at 0): range(0, len(sentences) - 1, 2)
RECURSIVE clean_text_125(_, _, _)
clean_text_125(sentences, i, formatted_sentences) ==
  IF i >= Len(sentences) THEN formatted_sentences
  ELSE LET sentence == sentences[i] \o (IF i + 1 <= Len(sentences)
                                        THEN sentences[i + 1] ELSE <<>>)
       IN clean_text_125(sentences, i + 2,
                         IF strip(sentence) # <<>>
                         THEN Append(formatted_sentences, strip(sentence))
                         ELSE formatted_sentences)

\* the loop of formatter.py:132-137 that breaks the paragraph after every sentence
RECURSIVE clean_text_132_BreakAll(_, _, _)
clean_text_132_BreakAll(formatted_sentences, i, result_) ==
  IF i > Len(formatted_sentences) THEN result_
  ELSE clean_text_132_BreakAll(formatted_sentences, i + 1,
         result_ \o formatted_sentences[i] \o
         (IF i < Len(formatted_sentences) THEN <<"\n", "\n">> ELSE <<>>))

\* the loop of formatter.py:132-137 from sentence i (i - 1 in the source)
RECURSIVE clean_text_132(_, _, _)
clean_text_132(formatted_sentences, i, result_) ==
  IF i > Len(formatted_sentences) THEN result_
  ELSE clean_text_132(formatted_sentences, i + 1,
         result_ \o formatted_sentences[i] \o
         (IF i % 2 = 0 /\ i < Len(formatted_sentences) THEN <<"\n", "\n">>
          ELSE IF i < Len(formatted_sentences) THEN <<" ">>
          ELSE <<>>))

\* formatter.py:105-139
clean_text(text) ==
  IF text = <<>> THEN <<>>
  ELSE LET cleaned == re_sub(strip(text))
           sentences == re_split(cleaned, <<>>)
           formatted_sentences == clean_text_125(sentences, 1, <<>>)
       IN clean_text_132(formatted_sentences, 1, <<>>)

\* the characters of the texts explored: a letter, three kinds of whitespace,
\* two delimiters
TextAlphabet == {"a", " ", "\n", "U+3000", "U+3002", "U+FF01"}

InitClean ==
  /\ DirectInit("clean_text")
  /\ args \in {[text |-> s] : s \in Strings(TextAlphabet, MaxTextLen)}

call_clean_text ==
  /\ frontend = "clean_text"
  /\ Return(clean_text(args.text))

SpecClean == InitClean /\ [][call_clean_text]_vars

(***************************************************************************)
(* _format_timestamp on any whole number of seconds                        *)
(***************************************************************************)

\* the largest number of seconds explored
MaxSeconds == 6000

\* the decimal digit of d
Digit(d) == <<"0", "1", "2", "3", "4", "5", "6", "7", "8", "9">>[d + 1]

\* the decimal digits of the natural number n
RECURSIVE Decimal(_)
Decimal(n) == IF n < 10 THEN <<Digit(n)>> ELSE Decimal(n \div 10) \o <<Digit(n % 10)>>

\* the format specification 02d: at least two digits, padded with zeros
format_02d(n) == IF n < 10 THEN <<"0">> \o Decimal(n) ELSE Decimal(n)

\* formatter.py:92-103 with the minutes wrapped at the hour
format_timestamp_Rollover(seconds) ==
  LET minutes == (seconds \div 60) % 60
      secs == seconds % 60
  IN format_02d(minutes) \o <<":">> \o format_02d(secs)

\* formatter.py:92-103
format_timestamp(seconds) ==
  LET minutes == seconds \div 60
      secs == seconds % 60
  IN format_02d(minutes) \o <<":">> \o format_02d(secs)

InitTs ==
  /\ DirectInit("format_timestamp")
  /\ args \in {[seconds |-> t] : t \in 0..MaxSeconds}

call_format_timestamp ==
  /\ frontend = "format_timestamp"
  /\ Return(format_timestamp(args.seconds))

SpecTs == InitTs /\ [][call_format_timestamp]_vars

(***************************************************************************)
(* get_summary_stats on any transcription result                           *)
(***************************************************************************)

\* characters per text and the latest end of a segment explored
MaxStatsText == 3
MaxEnd == 2

\* str.split(), token being the word read so far: the maximal runs of
\* characters that are not whitespace
RECURSIVE split(_, _)
split(s, token) ==
  IF s = <<>> THEN (IF token = <<>> THEN <<>> ELSE <<token>>)
  ELSE IF Head(s) \in Whitespace
       THEN (IF token = <<>> THEN <<>> ELSE <<token>>) \o split(Tail(s), <<>>)
       ELSE split(Tail(s), Append(token, Head(s)))

\* formatter.py:156-185 taking the duration from the first segment
get_summary_stats_FirstEnd(transcription_result) ==
  LET segments == transcription_result.segments
      full_text == transcription_result.text
  IN [total_duration |-> IF segments = <<>> THEN 0 ELSE segments[1].end,
      segment_count |-> Len(segments),
      word_count |-> IF full_text # <<>> THEN Len(split(full_text, <<>>)) ELSE 0,
      character_count |-> IF full_text # <<>> THEN Len(full_text) ELSE 0]

\* formatter.py:156-185
get_summary_stats(transcription_result) ==
  LET segments == transcription_result.segments
      full_text == transcription_result.text
  IN IF segments = <<>>
     THEN [total_duration |-> 0,
           segment_count |-> 0,
           word_count |-> IF full_text # <<>> THEN Len(split(full_text, <<>>)) ELSE 0,
           character_count |-> IF full_text # <<>> THEN Len(full_text) ELSE 0]
     ELSE LET total_duration == segments[Len(segments)].end
              word_count == IF full_text # <<>> THEN Len(split(full_text, <<>>)) ELSE 0
              character_count == IF full_text # <<>> THEN Len(full_text) ELSE 0
          IN [total_duration |-> total_duration,
              segment_count |-> Len(segments),
              word_count |-> word_count,
              character_count |-> character_count]

\* the text of tests/test_formatter.py:34: kore wa tesuto desu, full stop
TestText ==
  <<"U+3053", "U+308C", "U+306F", "U+30C6", "U+30B9", "U+30C8", "U+3067", "U+3059",
    "U+3002">>

\* the result of tests/test_formatter.py:33-38
TestResult ==
  [text |-> TestText, segments |-> <<[start |-> 0, end |-> 2, text |-> TestText]>>]

\* the results explored: any short text or the test's text, any number of
\* segments of that text with any ends
TranscriptionResults ==
  {[text |-> s, segments |-> [i \in 1..n |-> [start |-> 0, end |-> ends[i], text |-> s]]] :
     s \in Strings({"a", " ", "U+3000"}, MaxStatsText) \cup {TestText},
     ends \in [1..MaxSegments -> 0..MaxEnd], n \in 0..MaxSegments}

InitStats ==
  /\ DirectInit("get_summary_stats")
  /\ args \in TranscriptionResults

call_get_summary_stats ==
  /\ frontend = "get_summary_stats"
  /\ Return(get_summary_stats(args))

SpecStats == InitStats /\ [][call_get_summary_stats]_vars

(***************************************************************************)
(* format_minutes on any transcription result and title                    *)
(***************************************************************************)

\* characters per title explored
MaxTitle == 2

\* datetime.now().strftime('%Y年%m月%d日 %H:%M:%S') at two consecutive seconds
strftime(now) ==
  <<"2", "0", "2", "6", "U+5E74", "1", "1", "U+6708", "0", "4", "U+65E5", " ",
    "1", "7", ":", "0", "0", ":", "2">> \o <<Digit(6 + now)>>

\* formatter.py:55-67 without the default title
generate_header_NoDefault(title, now) ==
  <<"#", " ">> \o title
  \o <<"\n", "\n", "*", "*", "U+65E5", "U+6642", "*", "*", ":", " ">> \o strftime(now)

\* formatter.py:55-67
generate_header(title, now) ==
  LET title_ == IF title = <<>> THEN <<"U+4F1A", "U+8B70", "U+9332">> ELSE title IN
    <<"#", " ">> \o title_
    \o <<"\n", "\n", "*", "*", "U+65E5", "U+6642", "*", "*", ":", " ">> \o strftime(now)

\* the loop of formatter.py:82-88 that lists the segments without text too
RECURSIVE format_segments_82_KeepEmpty(_, _)
format_segments_82_KeepEmpty(segments, formatted) ==
  IF segments = <<>> THEN formatted
  ELSE LET segment == Head(segments) IN
       format_segments_82_KeepEmpty(Tail(segments),
         formatted \o <<"*", "*">> \o format_timestamp(segment.start) \o <<" ", "-", " ">>
         \o format_timestamp(segment.end) \o <<"*", "*", ":", " ">>
         \o strip(segment.text) \o <<"\n", "\n">>)

\* the loop of formatter.py:82-88 over the segments not yet visited
RECURSIVE format_segments_82(_, _)
format_segments_82(segments, formatted) ==
  IF segments = <<>> THEN formatted
  ELSE LET segment == Head(segments)
           start_time == format_timestamp(segment.start)
           end_time == format_timestamp(segment.end)
           text == strip(segment.text)
       IN format_segments_82(Tail(segments),
            IF text # <<>>
            THEN formatted \o <<"*", "*">> \o start_time \o <<" ", "-", " ">> \o end_time
                 \o <<"*", "*", ":", " ">> \o text \o <<"\n", "\n">>
            ELSE formatted)

\* formatter.py:69-90
format_segments(segments) ==
  IF segments = <<>> THEN <<>> ELSE format_segments_82(segments, <<>>)

\* the heading of formatter.py:47
DetailHeading ==
  <<"#", "#", " ", "U+30BF", "U+30A4", "U+30E0", "U+30B9", "U+30BF", "U+30F3", "U+30D7",
    "U+4ED8", "U+304D", "U+8A73", "U+7D30", "\n", "\n">>

\* formatter.py:15-53, the clock being read at header_now and then at footer_now
format_minutes(transcription_result, title, header_now, footer_now) ==
  LET full_text == transcription_result.text
      segments == transcription_result.segments
      language == transcription_result.language
      header == generate_header(title, header_now)
      formatted_segments == format_segments(segments)
      cleaned_text == clean_text(full_text)
  IN header \o <<"\n", "\n">>
     \o <<"#", "#", " ", "U+97F3", "U+58F0", "U+8A8D", "U+8B58", "U+7D50", "U+679C",
          "\n", "\n">>
     \o cleaned_text \o <<"\n", "\n">>
     \o (IF formatted_segments # <<>> THEN DetailHeading \o formatted_segments ELSE <<>>)
     \o <<"\n", "\n", "-", "-", "-", "\n", "\n", "*", "*", "U+8A00", "U+8A9E", "*", "*",
          ":", " ">> \o language \o <<"\n">>
     \o <<"*", "*", "U+4F5C", "U+6210", "U+65E5", "U+6642", "*", "*", ":", " ">>
     \o strftime(footer_now) \o <<"\n">>

\* the segments of the results explored: with and without text, with text to
\* trim, starting at 0:00 or at 1:05
MinutesSegments ==
  {[start |-> t, end |-> t + 65, text |-> s] :
     t \in {0, 65}, s \in {<<>>, <<" ">>, <<"a">>, <<" ", "b", " ">>}}

InitMinutes ==
  /\ DirectInit("format_minutes")
  /\ args \in {[transcription_result |-> [text |-> s, language |-> <<"j", "a">>,
                                          segments |-> segs],
                title |-> title, header_now |-> h, footer_now |-> f] :
                 s \in {<<>>, <<"a", "U+3002", "b", "U+3002">>},
                 segs \in UNION {[1..n -> MinutesSegments] : n \in 0..MaxSegments},
                 title \in Strings({"a", " "}, MaxTitle),
                 h \in {0}, f \in {0, 1}}

call_format_minutes ==
  /\ frontend = "format_minutes"
  /\ Return(format_minutes(args.transcription_result, args.title, args.header_now,
                           args.footer_now))

SpecMinutes == InitMinutes /\ [][call_format_minutes]_vars

(***************************************************************************)
(* Properties                                                              *)
(***************************************************************************)

\* C1: after stop_recording() has returned normally, and until the next
\* successful start_recording(), the capture thread it joined has terminated,
\* no stream is open, and the length of audio_data does not change.
C1_StopQuiesces ==
  /\ [](stop_returned =>
          /\ recording_thread # 0
          /\ ~Alive(recording_thread)
          /\ \A t \in Threads : ~StreamOpen(t) /\ callback[t] = "idle")
  /\ [][(stop_returned /\ stop_returned') => Len(audio_data') = Len(audio_data)]_vars

\* stop_recording() has returned after a capture that delivered chunks
C1_Witness == stop_returned /\ pc = "idle" /\ Len(audio_data) = MaxChunks

\* a capture is active: the flag is set or a capture thread is alive
CaptureActive == recording \/ \E t \in Threads : Alive(t)

\* C2: the export step of a worker (line 314) is never taken while a capture
\* is active.
C2_ExportOnlyWhenIdle ==
  [][\A w \in Runs : process_recording_314(w) => ~CaptureActive]_vars

\* C3: at most one _process_recording thread is running at any time.
C3_OnePipelineRun == Cardinality({w \in Runs : Running(w)}) <= 1

\* C4: a session in "processing" eventually is "completed" or "stopped".
C4_ProcessingEnds ==
  (recording_state = "processing") ~> (recording_state \in {"completed", "stopped"})

\* a run ended in "completed", and a run ended by the except branch
C4_Witness ==
  /\ \E w \in Runs : worker[w] = "done" /\ formatted_minutes = w
  /\ recording_state = "completed"
  /\ popup = "process_error"

\* what C5 requires to be left alone
sessionVars == <<recording_state, transcribed_text, formatted_minutes, recording, audio_data>>

\* C5: a handler invoked in a state that is not its source state (record
\* outside "stopped", stop outside "recording", new recording outside
\* "completed") shows an error and changes neither the session state, the
\* transcript, the document nor the recorder's flag and buffer.
C5_InvalidCommandRejected ==
  [][/\ (start_recording_280 /\ recording_state # "stopped")
          => (popup' = "start_error" /\ UNCHANGED sessionVars)
     /\ (stop_recording_295 /\ recording_state # "recording")
          => (popup' = "stop_error" /\ UNCHANGED sessionVars)
     /\ (start_new_recording_454 /\ recording_state # "completed")
          => (popup' # "none" /\ UNCHANGED sessionVars)]_vars

\* C6: when the except branch of a worker returns the session to "stopped"
\* (line 344), transcript and document are both empty.
C6_FailureDiscardsResults ==
  [][\A w \in Runs : process_recording_344(w)
        => (transcribed_text' = 0 /\ formatted_minutes' = 0)]_vars

\* C7: the document is empty unless the session state is "completed".
C7_DocumentOnlyWhenCompleted ==
  formatted_minutes # 0 => recording_state = "completed"

\* the capture thread failed while the session shows "recording": the
\* recorder is inactive and no handler is running
CaptureFailedWhileRecording ==
  /\ recording_state = "recording"
  /\ pc = "idle"
  /\ ~recording
  /\ recording_thread # 0
  /\ thread[recording_thread] \in {"ret", "done"}

\* C8: after the capture thread failed during "recording", the session
\* eventually is "stopped".
C8_CaptureFailureLeadsToIdle ==
  CaptureFailedWhileRecording ~> (recording_state = "stopped")

\* C10 (Kivy): when start_new_recording, invoked in "completed", returns, the
\* state is "stopped" with transcript and document empty, and a
\* start_recording invoked next starts a capture.
C10_ResetThenRecord ==
  [][/\ (start_new_recording_465 /\ last_cmd = <<"start_new_recording", "completed">>)
          => /\ recording_state' = "stopped"
             /\ transcribed_text' = 0
             /\ formatted_minutes' = 0
     /\ (start_recording_280 /\ last_cmd = <<"start_new_recording", "completed">>)
          => recording' /\ pc' = "rec_start_36"]_vars

\* a capture started by an earlier script run is still active
StCaptureActive == \E i \in 1..Len(st_recorders) : st_recorders[i].recording

\* C9: under Streamlit, a script run caused by the stop button while the
\* session state is "recording" stops the capture started by the earlier
\* start press and moves the session to "processing".
C9_StreamlitStopStopsCapture ==
  [][(main("stop", st_model_size) /\ st_session.recording_state = "recording")
       => (st_session'.recording_state = "processing" /\ ~StCaptureActive')]_vars

\* C11: when the except branch of a worker has returned the session to
\* "stopped" (line 344), the recorder's buffer audio_data is empty.
C11_FailureClearsBuffer ==
  [][\A w \in Runs : process_recording_344(w) => audio_data' = <<>>]_vars

\* C12: start_recording() called while the flag recording is set raises
\* "Recording is already in progress" and changes neither the flag, the
\* buffer, nor the capture threads.
C12_StartWhileActiveRaises ==
  [][(api_start_recording /\ recording)
       => /\ raised' = "already_recording"
          /\ UNCHANGED <<recording, audio_data, recording_thread, thread>>]_vars

\* a start_recording() was refused while the buffer held a chunk
C12_Witness == raised = "already_recording" /\ recording /\ audio_data # <<>>

\* C13: stop_recording() called while the flag recording is clear (never
\* started, stopped, or cleared by the except branch of the capture thread)
\* raises "No recording in progress" and changes neither flag nor buffer.
C13_StopWhileInactiveRaises ==
  [][(api_stop_recording /\ ~recording)
       => /\ raised' = "not_recording"
          /\ UNCHANGED <<recording, audio_data>>]_vars

\* the current capture thread ended by its except branch: it has finished,
\* no call is in progress, and no stop_recording() has returned since the start
CaptureFailed ==
  /\ pc = "idle"
  /\ recording_thread # 0
  /\ thread[recording_thread] \in {"ret", "done"}
  /\ ~stop_returned

\* a stop_recording() was refused after the capture thread had failed
C13_Witness == raised = "not_recording" /\ CaptureFailed

\* C14: every append of a chunk (line 95) is made in a state where the flag
\* recording is set.
C14_AppendOnlyWhileRecording ==
  [][\A t \in Threads : audio_callback_95(t) => recording]_vars

\* C15: once start_recording() has returned, every chunk in audio_data was
\* delivered by the stream of the capture thread that call started.
C15_BufferOfThisRecording ==
  pc # "rec_start_36" =>
    \A i \in 1..Len(audio_data) : audio_data[i] = indata(recording_thread)

\* a second recording holds a chunk
C15_Witness == pc = "idle" /\ recording_thread >= 2 /\ audio_data # <<>>

\* C16: a capture thread that enters its except branch finishes; once it has,
\* the flag recording is clear, is_recording() returns False and
\* stop_recording() raises "No recording in progress".
C16_CaptureFailureObserved ==
  /\ \A t \in Threads : (thread[t] = "except") ~> (thread[t] = "done")
  /\ [](CaptureFailed => ~recording)
  /\ [][(api_is_recording /\ CaptureFailed) => returned' = "False"]_vars
  /\ [][(api_stop_recording /\ CaptureFailed) => raised' = "not_recording"]_vars

\* after a failed capture, is_recording() has returned False
C16_Witness == CaptureFailed /\ thread[recording_thread] = "done" /\ returned = "False"

\* the number of frames in the chunks of data before chunk i
RECURSIVE FramesBefore(_, _)
FramesBefore(data, i) ==
  IF i = 1 THEN 0 ELSE FramesBefore(data, i - 1) + Len(data[i - 1])

\* C17: get_audio_bytes() raises when audio_data is empty; otherwise it
\* returns WAV bytes whose frames are the frames of all chunks, in the order
\* of the chunks; audio_data is left as it was.
C17_ExportInOrder ==
  [][api_get_audio_bytes =>
       /\ audio_data' = audio_data
       /\ (audio_data = <<>>) <=> (raised' = "no_audio_data")
       /\ audio_data # <<>> =>
            /\ raised' = "none"
            /\ wav_bytes'.rate = sample_rate
            /\ wav_bytes'.nframes = FramesBefore(audio_data, Len(audio_data) + 1)
            /\ Len(wav_bytes'.frames) = wav_bytes'.nframes
            /\ \A i \in 1..Len(audio_data) : \A j \in 1..Len(audio_data[i]) :
                 wav_bytes'.frames[FramesBefore(audio_data, i) + j] = audio_data[i][j]]_vars

\* two different chunks have been exported
C17_Witness ==
  /\ Len(audio_data) = 2
  /\ audio_data[1] # audio_data[2]
  /\ wav_bytes.nframes = Len(audio_data[1]) + Len(audio_data[2])

\* the call of transcribe_bytes made by worker w has returned or raised
TranscribeBytesExited(w) ==
  tb_self[w] # 0 /\ worker[w] \notin {"w_320", "tf_37", "lm_26", "tf_44"}

\* C18: when transcribe_bytes has returned or raised, the temporary file it
\* created does not exist.
C18_TempFileRemoved ==
  \A w \in Runs : TranscribeBytesExited(w) => temp_file[w] = "none"

\* C19: an object on which transcribe_bytes was never called has no model
\* (get_model_info reports loaded False), and a WhisperModel is stored in an
\* object only while it has none: one load per object, none afterwards.
C19_LoadedOnce ==
  /\ [](\A o \in 1..Len(transcribers) :
          (\A w \in Runs : tb_self[w] # o) => ~get_model_info(o).loaded)
  /\ [][\A w \in Runs : (load_model_26(w) /\ transcribers' # transcribers)
          => transcribers[tb_self[w]].model = NoModel]_vars

\* C20: the size of the application's transcriber is the selected one and a
\* model it holds was loaded with that size; a change of the selection
\* leaves the application with a transcriber that has no model; a
\* transcription that begins runs on the transcriber of the selected size,
\* and a load stores a model of the size of the object it runs on.
C20_ModelMatchesSelection ==
  /\ [](/\ get_model_info(transcriber).model_size = model_spinner
        /\ \A o \in 1..Len(transcribers) :
             get_model_info(o).loaded =>
               transcribers[o].model.size = transcribers[o].model_size)
  /\ [][ModelChange => ~get_model_info(transcriber).loaded']_vars
  /\ [][\A w \in Runs :
          /\ process_recording_320(w) =>
               transcribers[tb_self'[w]].model_size = model_spinner
          /\ (load_model_26(w) /\ transcribers' # transcribers) =>
               transcribers'[tb_self[w]].model.size = transcribers[tb_self[w]].model_size]_vars

\* after a change of the selection a transcription has loaded the new size
\* while the object replaced still holds the model of the old size
C20_Witness ==
  /\ Len(transcribers) = 2
  /\ get_model_info(1).loaded
  /\ get_model_info(2).loaded
  /\ transcribers[2].model.size = model_spinner
  /\ model_spinner # "base"
  /\ \E w \in Runs : tb_self[w] = 2 /\ worker[w] = "w_332"

\* the strings joined with single spaces (" ".join)
RECURSIVE JoinWithSpaces(_)
JoinWithSpaces(strs) ==
  IF strs = <<>> THEN <<>>
  ELSE IF Len(strs) = 1 THEN strs[1]
  ELSE strs[1] \o <<" ">> \o JoinWithSpaces(Tail(strs))

\* C21: the text transcribe_file returns is the whitespace-trimmed concatenation,
\* in engine order, of the trimmed segment texts separated by single spaces, and
\* its segments list has the engine's length and order, whatever segments the
\* engine returned (segments with empty text included).
C21_TextIsJoinedSegments ==
  (frontend = "transcribe_file" /\ pc = "returned") =>
    LET segs == args.segments IN
      /\ result.text = strip(JoinWithSpaces([i \in 1..Len(segs) |-> strip(segs[i].text)]))
      /\ Len(result.segments) = Len(segs)
      /\ \A i \in 1..Len(segs) :
           result.segments[i] = [start |-> segs[i].start, end |-> segs[i].end,
                                 text |-> strip(segs[i].text)]

\* a transcription whose middle segment has only whitespace has returned: the
\* neighbours' texts are two spaces apart
C21_Witness ==
  /\ frontend = "transcribe_file" /\ pc = "returned"
  /\ Len(args.segments) = 3
  /\ args.segments[1].text = <<"a", " ">>
  /\ args.segments[2].text = <<" ">>
  /\ args.segments[3].text = <<" ", "a">>
  /\ result.text = <<"a", " ", " ", "a">>

\* the characters of s that are not whitespace, in order
RECURSIVE NonWhitespace(_)
NonWhitespace(s) ==
  IF s = <<>> THEN <<>>
  ELSE IF Head(s) \in Whitespace THEN NonWhitespace(Tail(s))
  ELSE <<Head(s)>> \o NonWhitespace(Tail(s))

\* C22: _clean_text drops only the clauses that are empty after trimming: every
\* non-empty clause of the input, a final clause without delimiter and a text
\* without any delimiter included, appears in the output in its original order;
\* so the output has the input's non-whitespace characters, in the input's order.
C22_EveryClauseKept ==
  (frontend = "clean_text" /\ pc = "returned") =>
    NonWhitespace(result) = NonWhitespace(args.text)

\* the positions of the delimiters of s
DelimiterAt(s) == {i \in 1..Len(s) : s[i] \in Delimiters}

\* the position of the j-th delimiter of s
ClauseEnd(s, j) ==
  CHOOSE i \in DelimiterAt(s) : Cardinality({d \in DelimiterAt(s) : d <= i}) = j

\* the j-th clause of s, with its delimiter
Clause(s, j) == SubSeq(s, IF j = 1 THEN 1 ELSE ClauseEnd(s, j - 1) + 1, ClauseEnd(s, j))

\* s is made of one or more clauses, each a non-empty text followed by a
\* delimiter, with no whitespace but single spaces inside the text
IsClauses(s) ==
  /\ s # <<>> /\ s[Len(s)] \in Delimiters
  /\ s[1] \notin Whitespace \cup Delimiters
  /\ \A i \in 2..Len(s) :
       /\ s[i] \in Whitespace => s[i] = " " /\ s[i - 1] \notin Whitespace \cup Delimiters
       /\ s[i] \in Delimiters => s[i - 1] \notin Delimiters

\* clauses j..k of s, a blank line after every second one and a space after
\* every other one, nothing after clause k
RECURSIVE JoinedClauses(_, _, _)
JoinedClauses(s, j, k) ==
  IF j > k THEN <<>>
  ELSE Clause(s, j)
       \o (IF j = k THEN <<>> ELSE IF j % 2 = 0 THEN <<"\n", "\n">> ELSE <<" ">>)
       \o JoinedClauses(s, j + 1, k)

\* C23: for a text made of k >= 1 non-empty delimiter-terminated clauses,
\* _clean_text returns the clauses in order, a blank line after every second
\* clause but the last, a single space after every other clause but the last,
\* and nothing after the last.
C23_ClausesJoined ==
  (frontend = "clean_text" /\ pc = "returned" /\ IsClauses(args.text)) =>
    result = JoinedClauses(args.text, 1, Cardinality(DelimiterAt(args.text)))

\* three clauses have been joined: a space after the first, a blank line after
\* the second
C23_Witness ==
  /\ frontend = "clean_text" /\ pc = "returned"
  /\ args.text = <<"a", "U+3002", "a", "U+FF01", "a", "U+3002">>
  /\ result = <<"a", "U+3002", " ", "a", "U+FF01", "\n", "\n", "a", "U+3002">>

\* C24: _clean_text returns the empty string for the empty string and for a text
\* of whitespace only, and in every output the whitespace inside a clause is
\* single spaces: a space has no whitespace next to it, and the only other
\* whitespace is the blank line ("\n\n") that follows a clause's delimiter.
C24_WhitespaceCollapsed ==
  (frontend = "clean_text" /\ pc = "returned") =>
    /\ strip(args.text) = <<>> => result = <<>>
    /\ \A i \in 1..Len(result) :
         /\ result[i] # "U+3000"
         /\ result[i] \in Whitespace =>
              /\ 1 < i /\ i < Len(result)
              /\ \/ /\ result[i] = " "
                    /\ result[i - 1] \notin Whitespace
                    /\ result[i + 1] \notin Whitespace
                 \/ /\ result[i] = "\n"
                    /\ \/ result[i - 1] \in Delimiters /\ result[i + 1] = "\n"
                       \/ /\ result[i - 1] = "\n" /\ result[i + 1] \notin Whitespace
                          /\ i > 2 /\ result[i - 2] \in Delimiters

\* a run of two whitespace characters inside a clause has become one space
C24_Witness ==
  /\ frontend = "clean_text" /\ pc = "returned"
  /\ args.text = <<"a", "U+3000", "\n", "a", "U+3002">>
  /\ result = <<"a", " ", "a", "U+3002">>

\* the number a sequence of decimal digits denotes
RECURSIVE DecimalValue(_)
DecimalValue(s) ==
  IF s = <<>> THEN 0
  ELSE 10 * DecimalValue(SubSeq(s, 1, Len(s) - 1))
       + (CHOOSE d \in 0..9 : Digit(d) = s[Len(s)])

\* s is the decimal numeral of n in at least two digits, padded with zeros
IsTwoDigit(s, n) ==
  /\ Len(s) >= 2
  /\ \A i \in 1..Len(s) : \E d \in 0..9 : s[i] = Digit(d)
  /\ DecimalValue(s) = n
  /\ Len(s) > 2 => s[1] # "0"

\* C25: for every non-negative whole number of seconds t, _format_timestamp(t) is
\* t div 60 in two zero-padded digits, a colon, and t mod 60 in two zero-padded
\* digits; the minutes do not wrap at the hour.
C25_MinutesColonSeconds ==
  (frontend = "format_timestamp" /\ pc = "returned") =>
    LET n == Len(result) IN
      /\ n >= 5
      /\ result[n - 2] = ":"
      /\ IsTwoDigit(SubSeq(result, 1, n - 3), args.seconds \div 60)
      /\ IsTwoDigit(SubSeq(result, n - 1, n), args.seconds % 60)

\* 3661 seconds have been formatted as 61:01
C25_Witness ==
  /\ frontend = "format_timestamp" /\ pc = "returned"
  /\ args.seconds = 3661
  /\ result = <<"6", "1", ":", "0", "1">>

\* C26: get_summary_stats on the result with the nine-character text of the test
\* and one segment from 0.0 to 2.0 yields total_duration 2.0, segment_count 1,
\* character_count 8 and word_count 1.
C26_TestExample ==
  (frontend = "get_summary_stats" /\ pc = "returned" /\ args = TestResult) =>
    result = [total_duration |-> 2, segment_count |-> 1, character_count |-> 8,
              word_count |-> 1]

\* the positions of s where a whitespace-delimited token starts
TokenStarts(s) ==
  {i \in 1..Len(s) : s[i] \notin Whitespace /\ (i = 1 \/ s[i - 1] \in Whitespace)}

C28_HeaderTitle ==
  (frontend = "format_minutes" /\ pc = "returned") =>
    LET title == IF args.title = <<>> THEN <<"U+4F1A", "U+8B70", "U+9332">> ELSE args.title
        line == <<"#", " ">> \o title \o <<"\n", "\n">>
    IN SubSeq(result, 1, Len(line)) = line

\* a document has been produced for the empty title
C28_Witness ==
  /\ frontend = "format_minutes" /\ pc = "returned"
  /\ args.title = <<>>
  /\ SubSeq(result, 1, 6) = <<"#", " ", "U+4F1A", "U+8B70", "U+9332", "\n">>

\* the positions of s at which sub occurs
Occurrences(sub, s) ==
  {i \in 1..(Len(s) - Len(sub) + 1) : SubSeq(s, i, i + Len(sub) - 1) = sub}

\* the entry of a segment in the detail block
DetailEntry(segment) ==
  <<"*", "*">> \o format_timestamp(segment.start) \o <<" ", "-", " ">>
  \o format_timestamp(segment.end) \o <<"*", "*", ":", " ">> \o strip(segment.text)
  \o <<"\n", "\n">>

\* the entries of the segments with a non-empty trimmed text, in segment order
RECURSIVE DetailEntries(_)
DetailEntries(segments) ==
  IF segments = <<>> THEN <<>>
  ELSE (IF strip(Head(segments).text) # <<>> THEN DetailEntry(Head(segments)) ELSE <<>>)
       \o DetailEntries(Tail(segments))

\* C29: in the document of format_minutes the detail block lists exactly the
\* segments whose trimmed text is non-empty, in segment order, one entry
\* "MM:SS - MM:SS: text" each (the times in bold); the detail heading is present
\* if and only if some segment has a non-empty trimmed text.
C29_DetailBlock ==
  (frontend = "format_minutes" /\ pc = "returned") =>
    LET segments == args.transcription_result.segments
        headings == Occurrences(DetailHeading, result)
        rule == Occurrences(<<"\n", "\n", "-", "-", "-", "\n", "\n">>, result)
    IN /\ headings # {} <=> \E i \in 1..Len(segments) : strip(segments[i].text) # <<>>
       /\ Cardinality(headings) <= 1 /\ Cardinality(rule) = 1
       /\ \A h \in headings : \A r \in rule :
            SubSeq(result, h + Len(DetailHeading), r - 1) = DetailEntries(segments)

\* a document has been produced for three segments, the middle one without text
C29_Witness ==
  /\ frontend = "format_minutes" /\ pc = "returned"
  /\ Len(args.transcription_result.segments) = 3
  /\ args.transcription_result.segments[1] = [start |-> 65, end |-> 130, text |-> <<" ", "b", " ">>]
  /\ args.transcription_result.segments[2].text = <<" ">>
  /\ args.transcription_result.segments[3] = [start |-> 0, end |-> 65, text |-> <<"a">>]
  /\ Occurrences(DetailHeading
                 \o <<"*", "*", "0", "1", ":", "0", "5", " ", "-", " ", "0", "2", ":", "1", "0",
                      "*", "*", ":", " ", "b", "\n", "\n">>
                 \o <<"*", "*", "0", "0", ":", "0", "0", " ", "-", " ", "0", "1", ":", "0", "5",
                      "*", "*", ":", " ", "a", "\n", "\n">>
                 \o <<"\n", "\n", "-", "-", "-">>, result) # {}

\* C30: in the Kivy session, between the button handlers, the recorder and the
\* session state agree: while recorder.recording is set the state is
\* "recording", and while the state is "stopped" or "completed" no capture is
\* active.
C30_RecorderAgreesWithState ==
  pc = "idle" =>
    /\ recording => recording_state = "recording"
    /\ recording_state \in {"stopped", "completed"} => ~CaptureActive

\* the pipeline run started last
LastRun == CHOOSE w \in Spawned : \A v \in Spawned : v <= w

\* C31: in the Kivy session, whenever the state is "completed" the stored
\* document is non-empty and is the document of the most recent pipeline run,
\* however the worker's writes interleave with the UI handlers.
C31_CompletedHasLatestDocument ==
  recording_state = "completed" =>
    /\ formatted_minutes # 0
    /\ Spawned # {} /\ formatted_minutes = LastRun

\* C32: between the handlers of the Kivy UI the enabled controls match the
\* session state: the new-recording and download buttons are enabled only in
\* "completed", the stop button only in "recording", and the record button is
\* disabled in "recording" and in "processing".
C32_ControlsMatchState ==
  pc = "idle" =>
    /\ ~btn.new_recording => recording_state = "completed"
    /\ ~btn.download => recording_state = "completed"
    /\ ~btn.stop => recording_state = "recording"
    /\ recording_state \in {"recording", "processing"} => btn.record

\* C33 as stated: for one AudioRecorder at most one capture thread is alive at
\* any time, whatever start_recording, stop_recording and capture failures
\* preceded.
C33_OneCaptureThread == Cardinality({t \in Threads : Alive(t)}) <= 1

\* capture thread t has work left: its stream to open, to run or to close, or
\* its failure to handle up to line 108
AtWork(t) == thread[t] \in {"open", "loop", "exit", "except"}

\* C33: for one AudioRecorder at most one capture thread has work left at any
\* time, whatever start_recording, stop_recording and capture failures
\* preceded; a thread that failed and cleared the flag may still be returning
\* when the next start_recording succeeds.
C33_OneCaptureThreadAtWork == Cardinality({t \in Threads : AtWork(t)}) <= 1

\* a start_recording() succeeded while the failed thread before it was still
\* returning
C33_Witness ==
  \E t \in Threads :
    /\ thread[t] = "ret"
    /\ recording_thread # 0 /\ recording_thread # t
    /\ AtWork(recording_thread)

====
